---- MODULE Spec2Model ----
(***************************************************************************)
(* The runner coordination loop of steadyum-runner (run_simulation and     *)
(* process_message in crates/steadyum-runner/src/runner.rs): waiting for   *)
(* the region assignment, replaying the buffered commands, and the main    *)
(* loop with its command drain and its tick body.                          *)
(*                                                                         *)
(* Each runner is one thread of control.  The environment (partitioner,    *)
(* neighbours) puts payloads on a runner's command channel.  A panic       *)
(* (unwrap of a decode error, todo!(), expect) ends the runner: pc becomes *)
(* "aborted" and the runner takes no further step.                         *)
(*                                                                         *)
(* Abstractions: a body carries no position or velocity (the physics step  *)
(* is opaque); timings and the pacing sleep are left out; the counter      *)
(* watch_iteration_id is left out (it is only read by commented-out code). *)
(***************************************************************************)
EXTENDS Integers, Sequences, FiniteSets, TLC

\* ------------------------------------------------------------- bounds
Runner == {"r1", "r2"}
Uuid == {"u1", "u2"}
Region == {"A", "B"}
MaxSends == 3
MaxMultiSends == 4
CliTimeOrigin == 0
DefaultBounds == "default"

\* ------------------------------------------------------------- helpers
Put(f, k, v) == [x \in (DOMAIN f) \cup {k} |-> IF x = k THEN v ELSE f[x]]
Del(f, k) == [x \in (DOMAIN f) \ {k} |-> f[x]]
EmptyMap == [x \in {} |-> 0]

\* ------------------------------------------------------------- messages
AssignRegion(g, t) == [type |-> "AssignRegion", region |-> g, time_origin |-> t]
RunSteps(c, n) == [type |-> "RunSteps", curr_step |-> c, num_steps |-> n]
AssignIsland(bs, js) == [type |-> "AssignIsland", bodies |-> bs, impulse_joints |-> js]
MoveObject == [type |-> "MoveObject"]
UpdateColdObject == [type |-> "UpdateColdObject"]
StartStop(b) == [type |-> "StartStop", running |-> b]

BodyData(u) == [uuid |-> u, animations |-> IF u = "u1" THEN "linear" ELSE "none"]
JointData(a, b) == [body1 |-> a, body2 |-> b, joint |-> "fixed"]

Islands ==
    { AssignIsland(<<BodyData("u1")>>, <<>>),
      AssignIsland(<<BodyData("u1"), BodyData("u2")>>, <<JointData("u1", "u2")>>),
      AssignIsland(<<BodyData("u2")>>, <<JointData("u1", "u2")>>),
      AssignIsland(<<BodyData("u1"), BodyData("u1")>>, <<>>) }

Messages ==
    { AssignRegion("A", 10), AssignRegion("B", 20) }
    \cup { RunSteps(100, 2) }
    \cup Islands
    \cup { MoveObject, UpdateColdObject }
    \cup { StartStop(TRUE), StartStop(FALSE) }

\* A payload is the JSON text of a message, or text that is no RunnerMessage.
Encode(m) == [json |-> TRUE, text |-> m]
Garbage == [json |-> FALSE, text |-> MoveObject]
Payloads == { Encode(m) : m \in Messages } \cup { Garbage }

\* serde_json::from_str: Ok(message) or Err.
from_str(p) == IF p.json THEN [ok |-> TRUE, message |-> p.text]
               ELSE [ok |-> FALSE, message |-> MoveObject]

\* ------------------------------------------------------------- body set
\* RigidBodySet is a generational arena: a handle is <<index, generation>>;
\* remove frees the slot and bumps the arena's generation; insert takes the
\* most recently freed slot, or else the next unused one.
EmptyArena == [items |-> <<>>, generation |-> 0, free |-> <<>>]

Contains(arena, handle) ==
    /\ handle[1] \in 1..Len(arena.items)
    /\ arena.items[handle[1]].occupied
    /\ arena.items[handle[1]].generation = handle[2]

Handles(arena) ==
    { <<i, arena.items[i].generation>> :
        i \in { j \in 1..Len(arena.items) : arena.items[j].occupied } }

ArenaInsert(arena) ==
    LET slot == [occupied |-> TRUE, generation |-> arena.generation]
    IN  IF arena.free /= <<>>
        THEN [arena |-> [arena EXCEPT !.items[Head(arena.free)] = slot,
                                      !.free = Tail(arena.free)],
              handle |-> <<Head(arena.free), arena.generation>>]
        ELSE [arena |-> [arena EXCEPT !.items = Append(arena.items, slot)],
              handle |-> <<Len(arena.items) + 1, arena.generation>>]

ArenaRemove(arena, handle) ==
    IF Contains(arena, handle)
    THEN [arena EXCEPT !.items[handle[1]].occupied = FALSE,
                       !.generation = @ + 1,
                       !.free = <<handle[1]>> \o @]
    ELSE arena

\* Coarena<T>::insert: the slot of the handle's index is overwritten with the
\* handle's generation and the value.
CoarenaInsert(coarena, handle, value) ==
    Put(coarena, handle[1], [generation |-> handle[2], value |-> value])

CoarenaHas(coarena, handle) ==
    /\ handle[1] \in DOMAIN coarena
    /\ coarena[handle[1]].generation = handle[2]

\* ------------------------------------------------------------- SimulationState
DefaultSimulationState ==
    [ step_id |-> 0,
      is_running |-> FALSE,
      bodies |-> EmptyArena,
      colliders |-> {},
      impulse_joints |-> <<>>,
      body2animations |-> EmptyMap,
      body2uuid |-> EmptyMap,
      uuid2body |-> EmptyMap,
      sim_bounds |-> DefaultBounds,
      watched_objects |-> EmptyMap ]

\* RigidBodySet::remove(handle, .., remove_attached_colliders = true): when the
\* body exists, it goes together with its colliders and its joints.
RemoveBody(ss, handle) ==
    IF Contains(ss.bodies, handle)
    THEN LET Unattached(j) == j.body1 /= handle /\ j.body2 /= handle
         IN  [ss EXCEPT !.bodies = ArenaRemove(@, handle),
                        !.colliders = { c \in @ : c.parent /= handle },
                        !.impulse_joints = SelectSeq(@, Unattached)]
    ELSE ss

\* AssignIsland, the removal of a body already present under the same UUID.
RemoveExisting(ss, data) ==
    IF data.uuid \in DOMAIN ss.uuid2body
    THEN LET handle == ss.uuid2body[data.uuid]
         IN  [RemoveBody(ss, handle) EXCEPT !.watched_objects = Del(@, handle)]
    ELSE ss

\* AssignIsland, one iteration of `for data in bodies`.
InsertBody(ss, data) ==
    LET s1 == RemoveExisting(ss, data)
        alloc == ArenaInsert(s1.bodies)
        body_handle == alloc.handle
    IN  [s1 EXCEPT
            !.bodies = alloc.arena,
            !.colliders = @ \cup { [parent |-> body_handle, kind |-> "shape"],
                                   [parent |-> body_handle, kind |-> "watch"] },
            !.body2uuid = Put(@, body_handle, data.uuid),
            !.uuid2body = Put(@, data.uuid, body_handle),
            !.body2animations = CoarenaInsert(@, body_handle, data.animations)]

RECURSIVE InsertBodies(_, _)
InsertBodies(ss, bodies) ==
    IF bodies = <<>> THEN ss
    ELSE InsertBodies(InsertBody(ss, Head(bodies)), Tail(bodies))

\* The first endpoint looked up twice: the second endpoint is never resolved.
InsertJoint_first_endpoint_twice(ss, data) ==
    IF data.body1 \in DOMAIN ss.uuid2body
    THEN [ss EXCEPT !.impulse_joints =
            Append(@, [body1 |-> ss.uuid2body[data.body1],
                       body2 |-> ss.uuid2body[data.body1],
                       joint |-> data.joint])]
    ELSE ss

\* AssignIsland, one iteration of `for data in impulse_joints`.
InsertJoint(ss, data) ==
    IF data.body1 \in DOMAIN ss.uuid2body /\ data.body2 \in DOMAIN ss.uuid2body
    THEN [ss EXCEPT !.impulse_joints =
            Append(@, [body1 |-> ss.uuid2body[data.body1],
                       body2 |-> ss.uuid2body[data.body2],
                       joint |-> data.joint])]
    ELSE ss

RECURSIVE InsertJoints(_, _)
InsertJoints(ss, joints) ==
    IF joints = <<>> THEN ss
    ELSE InsertJoints(InsertJoint(ss, Head(joints)), Tail(joints))

\* The arm left as `todo!()`, as the RunSteps arm is.
ReservedCommand_todo(ss) == [panic |-> TRUE, sim_state |-> ss]

\* The MoveObject and UpdateColdObject arms: their bodies are commented out.
ReservedCommand(ss) == [panic |-> FALSE, sim_state |-> ss]

\* process_message: the state it leaves, and whether it panicked (todo!()).
\* It never returns Err.
process_message(ss, message) ==
    CASE message.type = "AssignRegion" ->
            [panic |-> FALSE,
             sim_state |-> [ss EXCEPT !.sim_bounds = message.region,
                                      !.step_id = message.time_origin]]
      [] message.type = "RunSteps" ->
            [panic |-> TRUE, sim_state |-> ss]
      [] message.type = "AssignIsland" ->
            [panic |-> FALSE,
             sim_state |-> InsertJoints(InsertBodies(ss, message.bodies),
                                        message.impulse_joints)]
      [] message.type = "MoveObject" -> ReservedCommand(ss)
      [] message.type = "UpdateColdObject" -> ReservedCommand(ss)
      [] message.type = "StartStop" ->
            [panic |-> FALSE, sim_state |-> [ss EXCEPT !.is_running = message.running]]

\* ------------------------------------------------------------- state
VARIABLES
    nodes,          \* the runner processes of this run
    pc,             \* per runner: "wait", "replay", "main", "aborted" or "returned"
    chan,           \* per runner: payloads in runner_zenoh_commands_queue
    open,           \* per runner: the queue still has its sender
    delayed_messages,   \* per runner: commands received before the assignment
    replayed,       \* per runner: how many delayed messages the replay loop has taken
    sim_state,      \* per runner: SimulationState
    steps_to_run,   \* per runner: the pending step counter
    effects,        \* per runner: writes to the store and messages to the partitioner, in order
    calls,          \* per runner: the commands applied so far, in order (history)
    last_tick,      \* per runner: what the latest loop iteration did after its drain (history)
    sent            \* payloads put on command queues so far (history)

vars == <<nodes, pc, chan, open, delayed_messages, replayed, sim_state,
          steps_to_run, effects, calls, last_tick, sent>>

Other(r) == CHOOSE q \in Runner : q /= r

Start(live) ==
    /\ nodes = live
    /\ pc = [r \in Runner |-> "wait"]
    /\ chan = [r \in Runner |-> <<>>]
    /\ open = [r \in Runner |-> TRUE]
    /\ delayed_messages = [r \in Runner |-> <<>>]
    /\ replayed = [r \in Runner |-> 0]
    /\ sim_state = [r \in Runner |->
                        [DefaultSimulationState EXCEPT !.step_id = CliTimeOrigin]]
    /\ steps_to_run = [r \in Runner |-> 0]
    /\ effects = [r \in Runner |-> <<>>]
    /\ calls = [r \in Runner |-> <<>>]
    /\ last_tick = [r \in Runner |-> "none"]
    /\ sent = 0

Init == Start({"r1"})

\* The flag raised.
stopped_raised == TRUE

\* `let stopped = false;`: never assigned again.
stopped == FALSE

\* ------------------------------------------------------------- environment
\* The partitioner or a neighbour publishes a payload on the runner's key.
Send(r) ==
    /\ r \in nodes
    /\ pc[r] /= "aborted"
    /\ open[r]
    /\ sent < (IF nodes = Runner THEN MaxMultiSends ELSE MaxSends)
    /\ \E p \in Payloads : chan' = [chan EXCEPT ![r] = Append(@, p)]
    /\ sent' = sent + 1
    /\ UNCHANGED <<last_tick, nodes, pc, open, delayed_messages, replayed, sim_state,
                   steps_to_run, effects, calls>>

\* The queue loses its sender: recv and try_recv fail once it is empty.
Disconnect(r) ==
    /\ r \in nodes
    /\ pc[r] /= "aborted"
    /\ open[r]
    /\ open' = [open EXCEPT ![r] = FALSE]
    /\ UNCHANGED <<last_tick, nodes, pc, chan, delayed_messages, replayed, sim_state,
                   steps_to_run, effects, calls, sent>>

\* ------------------------------------------------------------- wait for assignment
Call(message, via, panic) == [message |-> message, via |-> via, panic |-> panic]

\* The payload that does not decode is logged and skipped over.
unwrap_or_skip(decoded) == [panic |-> FALSE, message |-> decoded.message]

\* `serde_json::from_str(..).unwrap()`: panics on Err.
unwrap(decoded) == [panic |-> ~decoded.ok, message |-> decoded.message]

\* One iteration of `while let Ok(sample) = runner_zenoh_commands_queue.recv()`.
WaitRecv(r) ==
    /\ r \in nodes
    /\ pc[r] = "wait"
    /\ chan[r] /= <<>>
    /\ chan' = [chan EXCEPT ![r] = Tail(@)]
    /\ LET decoded == unwrap(from_str(Head(chan[r])))
           message == decoded.message
       IN  IF decoded.panic
           THEN /\ pc' = [pc EXCEPT ![r] = "aborted"]
                /\ UNCHANGED <<sim_state, delayed_messages, calls>>
           ELSE IF message.type = "AssignRegion"
           THEN /\ sim_state' = [sim_state EXCEPT
                                    ![r].sim_bounds = message.region,
                                    ![r].step_id = message.time_origin]
                /\ pc' = [pc EXCEPT ![r] = "replay"]
                /\ calls' = [calls EXCEPT ![r] = Append(@, Call(message, "wait", FALSE))]
                /\ UNCHANGED delayed_messages
           ELSE /\ delayed_messages' = [delayed_messages EXCEPT ![r] = Append(@, message)]
                /\ UNCHANGED <<pc, sim_state, calls>>
    /\ UNCHANGED <<last_tick, nodes, open, replayed, steps_to_run, effects, sent>>

\* recv() returns Err: the while-let loop ends without an assignment.
WaitDisconnected(r) ==
    /\ r \in nodes
    /\ pc[r] = "wait"
    /\ chan[r] = <<>>
    /\ ~open[r]
    /\ pc' = [pc EXCEPT ![r] = "replay"]
    /\ UNCHANGED <<last_tick, nodes, chan, open, delayed_messages, replayed, sim_state,
                   steps_to_run, effects, calls, sent>>

\* ------------------------------------------------------------- replay
\* One iteration of `for message in delayed_messages`; the Result is dropped.
Replay(r) ==
    /\ r \in nodes
    /\ pc[r] = "replay"
    /\ replayed[r] < Len(delayed_messages[r])
    /\ LET message == delayed_messages[r][replayed[r] + 1]
           res == process_message(sim_state[r], message)
       IN  /\ sim_state' = [sim_state EXCEPT ![r] = res.sim_state]
           /\ calls' = [calls EXCEPT ![r] = Append(@, Call(message, "replay", res.panic))]
           /\ pc' = [pc EXCEPT ![r] = IF res.panic THEN "aborted" ELSE "replay"]
    /\ replayed' = [replayed EXCEPT ![r] = @ + 1]
    /\ UNCHANGED <<last_tick, nodes, chan, open, delayed_messages, steps_to_run, effects, sent>>

\* The for loop is over: the main loop starts, if `while !stopped` lets it.
ReplayEnd(r) ==
    /\ r \in nodes
    /\ pc[r] = "replay"
    /\ replayed[r] = Len(delayed_messages[r])
    /\ pc' = [pc EXCEPT ![r] = IF stopped THEN "returned" ELSE "main"]
    /\ UNCHANGED <<last_tick, nodes, chan, open, delayed_messages, replayed, sim_state,
                   steps_to_run, effects, calls, sent>>

\* ------------------------------------------------------------- main loop
\* One iteration of `while let Ok(sample) = runner_zenoh_commands_queue.try_recv()`.
DrainRecv(r) ==
    /\ r \in nodes
    /\ pc[r] = "main"
    /\ chan[r] /= <<>>
    /\ chan' = [chan EXCEPT ![r] = Tail(@)]
    /\ LET decoded == unwrap(from_str(Head(chan[r])))
           res == process_message(sim_state[r], decoded.message)
       IN  IF decoded.panic
           THEN /\ pc' = [pc EXCEPT ![r] = "aborted"]
                /\ UNCHANGED <<sim_state, calls>>
           ELSE /\ sim_state' = [sim_state EXCEPT ![r] = res.sim_state]
                /\ calls' = [calls EXCEPT ![r] =
                                Append(@, Call(decoded.message, "drain", res.panic))]
                /\ pc' = [pc EXCEPT ![r] = IF res.panic THEN "aborted" ELSE "main"]
    /\ UNCHANGED <<last_tick, nodes, open, delayed_messages, replayed, steps_to_run, effects, sent>>

\* `if sim_state.is_running { while steps_to_run > 0 { step; step_id += 1;
\* steps_to_run -= 1; num_steps_run += 1; animations } } else { steps_to_run = 0 }`
StepBatch(ss, pending) ==
    IF ss.is_running
    THEN [sim_state |-> [ss EXCEPT !.step_id = @ + pending],
          steps_to_run |-> 0,
          num_steps_run |-> pending]
    ELSE [sim_state |-> ss, steps_to_run |-> 0, num_steps_run |-> 0]

\* all_data: a BodyPositionObject for each body of the body set that is not a
\* key of watched_objects, in the order of the body set.
RECURSIVE AllDataFrom(_, _)
AllDataFrom(ss, i) ==
    IF i > Len(ss.bodies.items) THEN <<>>
    ELSE LET handle == <<i, ss.bodies.items[i].generation>>
         IN  (IF ss.bodies.items[i].occupied /\ handle \notin DOMAIN ss.watched_objects
              THEN << [uuid |-> ss.body2uuid[handle], timestamp |-> ss.step_id] >>
              ELSE <<>>)
             \o AllDataFrom(ss, i + 1)

AllData(ss) == AllDataFrom(ss, 1)

\* The watch-list payloads compute_watch_data may return: the owned bodies whose
\* watch proxy overlaps a neighbouring region (geometry is not modelled).
compute_watch_data(ss, num_steps_run) ==
    SUBSET { ss.body2uuid[h] : h \in Handles(ss.bodies) \ DOMAIN ss.watched_objects }

\* The assignments calculate_region_assignments may return: the owned bodies
\* that must move to the neighbouring region.
calculate_region_assignments(ss) ==
    SUBSET (Handles(ss.bodies) \ DOMAIN ss.watched_objects)

RECURSIVE SeqOf(_)
SeqOf(set) ==
    IF set = {} THEN <<>>
    ELSE LET x == CHOOSE y \in set : TRUE IN <<x>> \o SeqOf(set \ {x})

RECURSIVE RemoveBodies(_, _)
RemoveBodies(ss, handles) ==
    IF handles = {} THEN ss
    ELSE LET h == CHOOSE y \in handles : TRUE
         IN  RemoveBodies(RemoveBody(ss, h), handles \ {h})

\* apply_and_send_region_assignments: the migrating bodies are removed locally
\* and announced to the destination runner.
apply_and_send_region_assignments(ss, region_assignments) ==
    [sim_state |-> RemoveBodies(ss, region_assignments),
     announce |-> IF region_assignments = {} THEN <<>>
                  ELSE << Encode(AssignIsland(
                            SeqOf({ BodyData(ss.body2uuid[h]) : h \in region_assignments }),
                            <<>>)) >>]

\* The guard left out: every iteration goes on to the post-step phase.
NoStepsPending_never(pending) == FALSE

\* `if steps_to_run == 0 { continue; }`
NoStepsPending(pending) == pending = 0

\* The end of the drain (try_recv returns Err), the rest of the loop body, and
\* the test of `while !stopped` that follows it.
Tick(r) ==
    /\ r \in nodes
    /\ pc[r] = "main"
    /\ chan[r] = <<>>
    /\ pc' = [pc EXCEPT ![r] = IF stopped THEN "returned" ELSE "main"]
    /\ IF NoStepsPending(steps_to_run[r])
       THEN /\ last_tick' = [last_tick EXCEPT ![r] = "skipped"]
            /\ UNCHANGED <<chan, open, delayed_messages, replayed, sim_state,
                           steps_to_run, effects, calls, sent, nodes>>
       ELSE LET batch == StepBatch(sim_state[r], steps_to_run[r])
                ss == batch.sim_state
                all_data == AllData(ss)
            IN  \E region_assignments \in
                        (IF sim_state[r].is_running
                         THEN calculate_region_assignments(ss) ELSE {{}}),
                   watch_data \in compute_watch_data(ss, batch.num_steps_run) :
                  LET applied == apply_and_send_region_assignments(ss, region_assignments)
                      finished == batch.steps_to_run = 0
                      warm_set == [timestamp |-> ss.step_id, objects |-> all_data]
                  IN  /\ sim_state' = [sim_state EXCEPT ![r] = applied.sim_state]
                      /\ chan' = [chan EXCEPT ![Other(r)] = @ \o applied.announce]
                      /\ steps_to_run' = [steps_to_run EXCEPT ![r] = batch.steps_to_run]
                      /\ effects' = [effects EXCEPT ![r] =
                            IF finished
                            THEN @ \o << [op |-> "put_warm", key |-> ss.sim_bounds,
                                          value |-> warm_set],
                                         [op |-> "put", key |-> ss.sim_bounds,
                                          value |-> watch_data],
                                         [op |-> "AckSteps", key |-> r,
                                          value |-> stopped] >>
                            ELSE @]
                      /\ last_tick' = [last_tick EXCEPT ![r] = "post_step"]
                      /\ UNCHANGED <<open, delayed_messages, replayed, calls, sent,
                                     nodes>>

Next ==
    \E r \in Runner :
        \/ Send(r)
        \/ Disconnect(r)
        \/ WaitRecv(r)
        \/ WaitDisconnected(r)
        \/ Replay(r)
        \/ ReplayEnd(r)
        \/ DrainRecv(r)
        \/ Tick(r)

Spec == Init /\ [][Next]_vars

\* Two runner processes.
MultiInit == Start(Runner)

MultiSpec == MultiInit /\ [][Next]_vars

TypeOK ==
    /\ nodes \subseteq Runner
    /\ \A r \in Runner : pc[r] \in {"wait", "replay", "main", "aborted", "returned"}
    /\ \A r \in Runner : last_tick[r] \in {"none", "skipped", "post_step"}
    /\ sent \in 0..(IF nodes = Runner THEN MaxMultiSends ELSE MaxSends)

\* ------------------------------------------------------------- vocabulary of the claims
Assigned(r) == \E i \in DOMAIN calls[r] : calls[r][i].via = "wait"

\* The runner has nothing left to do for the commands it took: the process
\* has ended, or the main loop has no pending step.
AtRest(r) == pc[r] = "aborted" \/ (pc[r] = "main" /\ steps_to_run[r] = 0)

Count(seq, Test(_)) == Cardinality({ i \in DOMAIN seq : Test(seq[i]) })

IsWarmPut(e) == e.op = "put_warm"
IsWatchPut(e) == e.op = "put"
IsAck(e) == e.op = "AckSteps"

\* The step of runner r applies (calls process_message on) a command of this type.
Applies(r, type) ==
    /\ Len(calls'[r]) = Len(calls[r]) + 1
    /\ calls'[r][Len(calls'[r])].message.type = type
    /\ calls'[r][Len(calls'[r])].via /= "wait"

Owned(r) ==
    { u \in DOMAIN sim_state[r].uuid2body :
        Contains(sim_state[r].bodies, sim_state[r].uuid2body[u]) }

\* ------------------------------------------------------------- facts about the batch path
\* No step is ever pending, nothing is ever written to the store and no
\* AckSteps is ever sent: steps_to_run is only assigned inside the tick body,
\* which the loop skips while steps_to_run is 0.
BatchPathUnreachable ==
    \A r \in Runner : steps_to_run[r] = 0 /\ effects[r] = <<>>

\* A runner that applies RunSteps ends there: RunSteps is the last command
\* it ever applies.
RunStepsIsFatal ==
    \A r \in Runner : \A i \in DOMAIN calls[r] :
        calls[r][i].message.type = "RunSteps" =>
            /\ i = Len(calls[r])
            /\ calls[r][i].panic
            /\ pc[r] = "aborted"

\* ------------------------------------------------------------- C1
\* C1: for an assigned, running runner, once the runner is at rest after
\* RunSteps{curr_step = c, num_steps = n}, n > 0, the step id is c + n, exactly
\* one warm set was persisted and it carries timestamp c + n, and exactly one
\* AckSteps was sent.
C1_BatchSemantics ==
    \A r \in nodes :
        LET last == calls[r][Len(calls[r])]
            m == last.message
        IN  ( /\ calls[r] /= <<>>
              /\ m.type = "RunSteps"
              /\ m.num_steps > 0
              /\ Count(calls[r], LAMBDA c : c.message.type = "RunSteps") = 1
              /\ Assigned(r)
              /\ sim_state[r].is_running
              /\ AtRest(r) )
            => /\ sim_state[r].step_id = m.curr_step + m.num_steps
               /\ Count(effects[r], IsWarmPut) = 1
               /\ \A i \in DOMAIN effects[r] :
                    IsWarmPut(effects[r][i]) =>
                        effects[r][i].value.timestamp = m.curr_step + m.num_steps
               /\ Count(effects[r], IsAck) = 1

\* ------------------------------------------------------------- C4
ReplayCalls(r) == SelectSeq(calls[r], LAMBDA c : c.via = "replay")

\* C4: once the replay that follows the assignment is over (the main loop
\* runs, or the process has ended), every command buffered before the
\* assignment has been handed to process_message, in arrival order, and before
\* any command taken by the drain.
C4_NoCommandLost ==
    \A r \in nodes :
        (Assigned(r) /\ pc[r] \in {"main", "aborted"})
        => /\ [i \in DOMAIN ReplayCalls(r) |-> ReplayCalls(r)[i].message]
                = delayed_messages[r]
           /\ \A i, j \in DOMAIN calls[r] :
                (calls[r][i].via = "replay" /\ calls[r][j].via = "drain") => i < j

\* ------------------------------------------------------------- C6
\* C6: a runner that the drain has led to a RunSteps command comes to rest only
\* with the commands queued behind that RunSteps applied: none of them is left
\* in the queue for good, and none was applied by the drain that took the
\* RunSteps.
C6_CommandsBehindRunStepsDeferred ==
    \A r \in nodes :
        LET runs == { i \in DOMAIN calls[r] :
                        calls[r][i].message.type = "RunSteps" /\ calls[r][i].via = "drain" }
        IN  (runs /= {} /\ pc[r] = "aborted")
            => \A i \in DOMAIN chan[r] : ~from_str(chan[r][i]).ok

\* ------------------------------------------------------------- C8
\* C8: when AssignIsland is applied with a body whose UUID is already present,
\* afterwards no mapping (body2uuid, uuid2body, body2animations,
\* watched_objects) has an entry for the old handle, the old body, its
\* colliders and its joints are gone, and the identity has exactly one live
\* body with exactly one watch-proxy collider.
C8_ReinsertLeavesNoTrace ==
    [][ \A r \in nodes : \A u \in DOMAIN sim_state[r].uuid2body :
          ( /\ Applies(r, "AssignIsland")
            /\ \E i \in DOMAIN calls'[r][Len(calls'[r])].message.bodies :
                    calls'[r][Len(calls'[r])].message.bodies[i].uuid = u )
          => LET old == sim_state[r].uuid2body[u]
                 ss == sim_state'[r]
                 live == { h \in Handles(ss.bodies) :
                             h \in DOMAIN ss.body2uuid /\ ss.body2uuid[h] = u }
             IN  /\ ~Contains(ss.bodies, old)
                 /\ \A c \in ss.colliders : c.parent /= old
                 /\ \A i \in DOMAIN ss.impulse_joints :
                        ss.impulse_joints[i].body1 /= old /\ ss.impulse_joints[i].body2 /= old
                 /\ old \notin DOMAIN ss.watched_objects
                 /\ ss.uuid2body[u] /= old
                 /\ ~CoarenaHas(ss.body2animations, old)
                 /\ old \notin DOMAIN ss.body2uuid
                 /\ Cardinality(live) = 1
                 /\ \A h \in live :
                        Cardinality({ c \in ss.colliders :
                                        c.parent = h /\ c.kind = "watch" }) = 1
      ]_vars

\* What does hold of a re-insert: the old body, its colliders, its joints and
\* its watch entry are gone, uuid2body and body2animations have moved on to the
\* new handle, and the identity has one live body with one watch proxy.  Only
\* body2uuid keeps its entry for the old handle.
ReinsertRemovesOldBody ==
    [][ \A r \in nodes : \A u \in DOMAIN sim_state[r].uuid2body :
          ( /\ Applies(r, "AssignIsland")
            /\ \E i \in DOMAIN calls'[r][Len(calls'[r])].message.bodies :
                    calls'[r][Len(calls'[r])].message.bodies[i].uuid = u )
          => LET old == sim_state[r].uuid2body[u]
                 ss == sim_state'[r]
                 live == { h \in Handles(ss.bodies) : ss.body2uuid[h] = u }
             IN  /\ ~Contains(ss.bodies, old)
                 /\ \A c \in ss.colliders : c.parent /= old
                 /\ old \notin DOMAIN ss.watched_objects
                 /\ ss.uuid2body[u] /= old
                 /\ ~CoarenaHas(ss.body2animations, old)
                 /\ old \in DOMAIN ss.body2uuid
                 /\ Cardinality(live) = 1
      ]_vars

C11_IdentityMapsInLockstep ==
    \A r \in nodes :
        LET ss == sim_state[r]
        IN  /\ \A h \in DOMAIN ss.body2uuid :
                /\ ss.body2uuid[h] \in DOMAIN ss.uuid2body
                /\ ss.uuid2body[ss.body2uuid[h]] = h
                /\ Contains(ss.bodies, h)
            /\ \A u \in DOMAIN ss.uuid2body :
                /\ ss.uuid2body[u] \in DOMAIN ss.body2uuid
                /\ ss.body2uuid[ss.uuid2body[u]] = u
                /\ Contains(ss.bodies, ss.uuid2body[u])

\* What does hold of the identity maps: uuid2body is a right inverse of
\* body2uuid and only mentions live bodies, and every live body has its
\* body2uuid entry.  body2uuid may also keep handles of removed bodies.
Uuid2BodyIsConsistent ==
    \A r \in nodes :
        LET ss == sim_state[r]
        IN  /\ \A u \in DOMAIN ss.uuid2body :
                /\ ss.uuid2body[u] \in DOMAIN ss.body2uuid
                /\ ss.body2uuid[ss.uuid2body[u]] = u
                /\ Contains(ss.bodies, ss.uuid2body[u])
            /\ Handles(ss.bodies) \subseteq DOMAIN ss.body2uuid
            /\ Handles(ss.bodies) = { ss.uuid2body[u] : u \in DOMAIN ss.uuid2body }

\* ------------------------------------------------------------- C12
\* C12 as stated: no loop iteration of an assigned runner skips the post-step
\* phase (warm snapshot, watch-list payload, region assignments).
C12_PostStepEveryTick ==
    \A r \in nodes : Assigned(r) => last_tick[r] /= "skipped"

\* C12 as amended: the post-step phase runs in the iterations that start with
\* pending steps and only in them; an iteration that starts with no pending
\* step goes back to the drain and leaves the simulation state, the store,
\* the partitioner and the queues untouched.
C12_PostStepOnlyWithPendingSteps ==
    [][ \A r \in nodes :
          last_tick'[r] /= last_tick[r]
          => IF steps_to_run[r] = 0
             THEN /\ last_tick'[r] = "skipped"
                  /\ sim_state' = sim_state
                  /\ effects' = effects
                  /\ chan' = chan
                  /\ steps_to_run' = steps_to_run
             ELSE last_tick'[r] = "post_step"
      ]_vars

C12_Witness ==
    \E r \in nodes : pc[r] = "main" /\ last_tick[r] = "skipped" /\ Assigned(r)

\* ------------------------------------------------------------- C13
\* sim_bounds and step_id are those of the latest AssignRegion applied.
HoldsLatestRegion(r) ==
    LET ars == SelectSeq(calls[r], LAMBDA c : c.message.type = "AssignRegion")
    IN  /\ ars /= <<>>
        /\ sim_state[r].sim_bounds = ars[Len(ars)].message.region
        /\ sim_state[r].step_id = ars[Len(ars)].message.time_origin

\* C13: a runner that replays buffered commands or runs the main loop has
\* received an AssignRegion, and holds the region and time origin of the latest
\* one; a runner that never received one stays in the wait.
C13_LeavesUnassignedOnlyByAssignRegion ==
    \A r \in nodes :
        pc[r] \in {"replay", "main"} => (Assigned(r) /\ HoldsLatestRegion(r))

\* What does hold: a runner whose wait ended with an AssignRegion holds the
\* region and time origin of the latest AssignRegion it applied.
AssignedRunnerHoldsLatestRegion ==
    \A r \in nodes : Assigned(r) => HoldsLatestRegion(r)

\* ------------------------------------------------------------- C14
\* C14: the main loop never ends normally (no runner returns from
\* run_simulation), and every AckSteps sent carries stopped = false.
C14_NeverStopped ==
    \A r \in nodes :
        /\ pc[r] /= "returned"
        /\ \A i \in DOMAIN effects[r] :
                IsAck(effects[r][i]) => effects[r][i].value = FALSE

\* The loop test `while !stopped` has been passed on entry and again after an
\* iteration whose drain applied a command.
C14_Witness ==
    \E r \in nodes :
        /\ pc[r] = "main"
        /\ last_tick[r] = "skipped"
        /\ \E i \in DOMAIN calls[r] : calls[r][i].via = "drain"

\* ------------------------------------------------------------- C16
\* The joints of a message whose two endpoints have a handle in the map, as
\* joints between those handles, in the order of the message.
RECURSIVE Resolved(_, _)
Resolved(joints, map) ==
    IF joints = <<>> THEN <<>>
    ELSE LET j == Head(joints)
         IN  (IF j.body1 \in DOMAIN map /\ j.body2 \in DOMAIN map
              THEN << [body1 |-> map[j.body1], body2 |-> map[j.body2], joint |-> j.joint] >>
              ELSE <<>>)
             \o Resolved(Tail(joints), map)

\* C16: applying AssignIsland never fails, and afterwards the joint set is the
\* joints that were there and are still attached to live bodies, followed by
\* exactly those joints of the message whose two endpoints resolve in uuid2body
\* as it is once all bodies of the message are inserted; a joint with an
\* unresolved endpoint leaves no trace, and the bodies of the message are all
\* present.
C16_JointInsertion ==
    [][ \A r \in nodes :
          Applies(r, "AssignIsland")
          => LET call == calls'[r][Len(calls'[r])]
                 ss == sim_state'[r]
                 Attached(j) == Contains(ss.bodies, j.body1) /\ Contains(ss.bodies, j.body2)
             IN  /\ ~call.panic
                 /\ pc'[r] /= "aborted"
                 /\ ss.impulse_joints =
                        SelectSeq(sim_state[r].impulse_joints, Attached)
                        \o Resolved(call.message.impulse_joints, ss.uuid2body)
                 /\ \A i \in DOMAIN call.message.bodies :
                        call.message.bodies[i].uuid \in DOMAIN ss.uuid2body
                 /\ DOMAIN ss.uuid2body =
                        DOMAIN sim_state[r].uuid2body
                        \cup { call.message.bodies[i].uuid : i \in DOMAIN call.message.bodies }
                 /\ steps_to_run' = steps_to_run
                 /\ delayed_messages' = delayed_messages
                 /\ ss.step_id = sim_state[r].step_id
                 /\ ss.is_running = sim_state[r].is_running
                 /\ ss.sim_bounds = sim_state[r].sim_bounds
      ]_vars

\* A joint with an unresolved endpoint was dropped by one message and a joint
\* between two bodies of one message was inserted by another.
C16_Witness ==
    \E r \in nodes :
        /\ pc[r] = "main"
        /\ Len(sim_state[r].impulse_joints) = 1
        /\ \E i, k \in DOMAIN calls[r] :
            /\ i < k
            /\ calls[r][i].message = AssignIsland(<<BodyData("u2")>>, <<JointData("u1", "u2")>>)
            /\ calls[r][k].message = AssignIsland(<<BodyData("u1"), BodyData("u2")>>,
                                                  <<JointData("u1", "u2")>>)

\* ------------------------------------------------------------- C17
\* C17: applying MoveObject or UpdateColdObject, in the replay of the delayed
\* messages or in the drain of the main loop, does not fail, does not abort the
\* runner, and leaves the simulation state, the pending step counter, the
\* delayed buffer and the store untouched.
C17_ReservedCommandsHarmless ==
    [][ \A r \in nodes :
          (Applies(r, "MoveObject") \/ Applies(r, "UpdateColdObject"))
          => /\ ~calls'[r][Len(calls'[r])].panic
             /\ pc'[r] \in {"replay", "main"}
             /\ sim_state'[r] = sim_state[r]
             /\ steps_to_run' = steps_to_run
             /\ delayed_messages' = delayed_messages
             /\ effects' = effects
      ]_vars

\* An assigned runner has taken one reserved command in the replay and one in
\* the drain, and goes on.
C17_Witness ==
    \E r \in nodes :
        /\ pc[r] = "main"
        /\ Assigned(r)
        /\ \E i, k \in DOMAIN calls[r] :
            /\ calls[r][i].via = "replay"
            /\ calls[r][i].message.type \in {"MoveObject", "UpdateColdObject"}
            /\ calls[r][k].via = "drain"
            /\ calls[r][k].message.type \in {"MoveObject", "UpdateColdObject"}

\* ------------------------------------------------------------- C18
\* The step of runner r takes a payload that does not decode from its queue.
TakesMalformed(r) ==
    /\ pc[r] \in {"wait", "main"}
    /\ chan[r] /= <<>>
    /\ chan'[r] = Tail(chan[r])
    /\ ~from_str(Head(chan[r])).ok

\* C18: a runner that takes a payload that does not decode, while waiting for
\* its assignment or in the drain of the main loop, aborts in that step without
\* applying or buffering anything; an aborted runner takes nothing more from
\* its queue, applies no command, runs no step and sends nothing.
C18_MalformedPayloadFatal ==
    [][ \A r \in nodes :
          /\ TakesMalformed(r)
             => /\ pc'[r] = "aborted"
                /\ calls'[r] = calls[r]
                /\ delayed_messages'[r] = delayed_messages[r]
                /\ sim_state'[r] = sim_state[r]
          /\ pc[r] = "aborted"
             => /\ pc'[r] = "aborted"
                /\ Len(chan'[r]) >= Len(chan[r])
                /\ calls'[r] = calls[r]
                /\ sim_state'[r] = sim_state[r]
                /\ steps_to_run'[r] = steps_to_run[r]
                /\ effects'[r] = effects[r]
                /\ replayed'[r] = replayed[r]
      ]_vars

\* An assigned runner aborted in its drain on a payload that does not decode
\* (no applied command failed), with a command that decodes left behind it.
C18_Witness ==
    \E r \in nodes :
        /\ pc[r] = "aborted"
        /\ Assigned(r)
        /\ \A i \in DOMAIN calls[r] : ~calls[r][i].panic
        /\ \E i \in DOMAIN chan[r] : from_str(chan[r][i]).ok

\* The same before the assignment: the runner aborted while waiting.
C18_WaitWitness ==
    \E r \in nodes :
        /\ pc[r] = "aborted"
        /\ ~Assigned(r)
        /\ calls[r] = <<>>

====
